---- MODULE Spec2Model ----
(***************************************************************************)
(* Backend adapters of the psijd job gateway: the Slurm REST executor, the *)
(* NERSC executor and the Superfacility API executor, their state mappers, *)
(* and the executor factory get_executor.                                  *)
(*                                                                         *)
(* Python values are modelled as follows.                                  *)
(*   - An Optional value is a sequence of length <= 1: None is <<>> and a  *)
(*     present value v is <<v>>.                                           *)
(*   - An identifier string is a sequence of one-character strings.        *)
(*   - A native state string is a record [word, cs]: the word spelled in   *)
(*     upper case and the case of the spelling actually received           *)
(*     ("upper", "lower" or "mixed").  str.upper() keeps the word and      *)
(*     makes the spelling "upper".  The empty string is EmptyStr.          *)
(*   - A job_state field is a record [kind, items]: kind is "missing"      *)
(*     (no such key), "none", "str" (items holds the one string) or        *)
(*     "list" (items holds the elements).                                  *)
(*   - A text other than an identifier (a path, a name, a token) is a TLA+ *)
(*     string.                                                            *)
(*   - psij.JobState members are taken to be truthy enum members and       *)
(*     JobState.UNKNOWN to exist, as the executors' code assumes.          *)
(*   - job.status = JobStatus(state) and job._native_id = id are taken to  *)
(*     store the value given, whatever the job's status was before.        *)
(***************************************************************************)
EXTENDS Integers, Sequences, FiniteSets, TLC

VARIABLES adapter, job, last, submitCalls, submitRpcs, nativeJobs, factory, request,
          http, submitted, cancelled, conversion

vars == <<adapter, job, last, submitCalls, submitRpcs, nativeJobs, factory, request,
          http, submitted, cancelled, conversion>>

\* the gateway's variables: the latest HTTP exchange, the id of the latest 201
\* answer (None before it), and whether a DELETE of that id was answered 204 since
gatewayVars == <<http, submitted, cancelled>>

(* ------------------------------ bounds -------------------------------- *)

\* native job numbers the backend hands out are 1..MaxJobId (and 42)
MaxJobId == 1
\* submit invocations counted per behaviour
MaxSubmits == 2
\* node counts a ResourceSpec asks for are 1..MaxNodeCount (and 12)
MaxNodeCount == 3

(* ------------------------- Python value helpers ----------------------- *)

None == <<>>

Some(v) == <<v>>

\* truthiness of an Optional[str]: neither None nor the empty string
Truthy(opt) == opt # None /\ opt[1] # <<>>

DigitChar(d) ==
  CASE d = 0 -> "0" [] d = 1 -> "1" [] d = 2 -> "2" [] d = 3 -> "3" [] d = 4 -> "4"
    [] d = 5 -> "5" [] d = 6 -> "6" [] d = 7 -> "7" [] d = 8 -> "8" [] d = 9 -> "9"

RECURSIVE Str(_)
\* str(n) of a non-negative integer: its decimal digits
Str(n) == IF n < 10 THEN <<DigitChar(n)>> ELSE Append(Str(n \div 10), DigitChar(n % 10))

\* str(x) of an Optional[int]: str(None) is the four characters "None"
PyStr(opt) == IF opt = None THEN <<"N", "o", "n", "e">> ELSE Str(opt[1])

(* ----------------------------- native states -------------------------- *)

Vocabulary == {"PENDING", "CONFIGURING", "SUSPENDED", "RUNNING", "COMPLETED",
               "FAILED", "TIMEOUT", "PREEMPTED", "NODE_FAIL", "CANCELLED"}

\* well-formed codes no adapter lists
OtherWords == {"COMPLETING", "UNKNOWN"}

Words == Vocabulary \cup OtherWords

Cases == {"upper", "lower", "mixed"}

EmptyStr == [word |-> "", cs |-> "upper"]

NativeStrs == [word : Words, cs : Cases] \cup {EmptyStr}

\* str.upper()
Upper(s) == [s EXCEPT !.cs = "upper"]

U(w) == [word |-> w, cs |-> "upper"]

AbstractStates == {"NEW", "QUEUED", "ACTIVE", "COMPLETED", "FAILED", "CANCELED", "UNKNOWN"}

\* what a mapper yields when it raises instead of returning
RAISE == "RAISE"

\* dict.get(key, default) on a table given as a set of <<key, value>> pairs
DictGet(table, key, default) ==
  IF \E p \in table : p[1] = key
  THEN (CHOOSE p \in table : p[1] = key)[2]
  ELSE default

\* the Slurm table with the NODE_FAIL row forgotten
SlurmTable_NoNodeFail ==
  { <<U("PENDING"), "QUEUED">>, <<U("CONFIGURING"), "NEW">>, <<U("RUNNING"), "ACTIVE">>,
    <<U("COMPLETED"), "COMPLETED">>, <<U("CANCELLED"), "CANCELED">>,
    <<U("FAILED"), "FAILED">>, <<U("TIMEOUT"), "FAILED">>, <<U("PREEMPTED"), "FAILED">>,
    <<U("SUSPENDED"), "CANCELED">> }

SlurmTable ==
  { <<U("PENDING"), "QUEUED">>, <<U("CONFIGURING"), "NEW">>, <<U("RUNNING"), "ACTIVE">>,
    <<U("COMPLETED"), "COMPLETED">>, <<U("CANCELLED"), "CANCELED">>,
    <<U("FAILED"), "FAILED">>, <<U("TIMEOUT"), "FAILED">>, <<U("PREEMPTED"), "FAILED">>,
    <<U("NODE_FAIL"), "FAILED">>, <<U("SUSPENDED"), "CANCELED">> }

\* ret = mapping.get(slurm_state.upper(), None); if not ret: raise
_map_slurm_state_to_psij(s) == DictGet(SlurmTable, Upper(s), RAISE)

NerscTable ==
  { <<U("PENDING"), "QUEUED">>, <<U("RUNNING"), "ACTIVE">>, <<U("COMPLETED"), "COMPLETED">>,
    <<U("CANCELLED"), "CANCELED">>, <<U("FAILED"), "FAILED">>, <<U("TIMEOUT"), "FAILED">>,
    <<U("PREEMPTED"), "FAILED">>, <<U("NODE_FAIL"), "FAILED">>, <<U("SUSPENDED"), "QUEUED">> }

\* return mapping.get(nersc_state.upper(), JobState.NEW)
_map_nersc_state_to_psij(s) == DictGet(NerscTable, Upper(s), "NEW")

SfapiTable ==
  { <<U("PENDING"), "QUEUED">>, <<U("RUNNING"), "ACTIVE">>, <<U("COMPLETED"), "COMPLETED">>,
    <<U("FAILED"), "FAILED">>, <<U("CANCELLED"), "CANCELED">> }

\* return mapping.get(superfacility_state, JobState.UNKNOWN): no case folding
_map_superfacility_state_to_psij(s) == DictGet(SfapiTable, s, "UNKNOWN")

Adapters == {"slurm", "nersc", "sfapi"}

\* the state mapper of adapter a
Mapper(a, s) ==
  CASE a = "slurm" -> _map_slurm_state_to_psij(s)
    [] a = "nersc" -> _map_nersc_state_to_psij(s)
    [] a = "sfapi" -> _map_superfacility_state_to_psij(s)

(* --------------------------- jobs and responses ----------------------- *)

(* job.spec: what a job asks for *)

NodeCounts == (1..MaxNodeCount) \cup {12}

\* job_spec.resources: None, a ResourceSpecV1 (a ResourceSpec), or an object of
\* another class; node_count may be unset
ResourceValues ==
  {None} \cup {Some([cls |-> c, node_count |-> n]) :
                 c \in {"ResourceSpecV1", "object"},
                 n \in {None} \cup {Some(k) : k \in NodeCounts}}

\* job_spec.attributes.duration.total_seconds()
DurationSeconds == {-30, 0, 59, 60, 600, 3599}

JobSpecs ==
  [resources : ResourceValues, duration : DurationSeconds,
   directory : {None, Some("/work")}]

\* JobSpec(): no resources, JobAttributes' default duration of ten minutes
DefaultJobSpec == [resources |-> None, duration |-> 600, directory |-> None]

\* job.spec: None or a JobSpec
SpecValues == {None} \cup {Some(js) : js \in JobSpecs}

\* a JobSpec asking for three nodes, 3599 seconds and a directory
WorkJobSpec ==
  [resources |-> Some([cls |-> "ResourceSpecV1", node_count |-> Some(3)]),
   duration |-> 3599, directory |-> Some("/work")]

\* Job(spec): the id the Job gives itself, the spec given, no native id, status NEW
Job(id, spec) == [id |-> id, spec |-> spec, native_id |-> None, status |-> "NEW"]

\* Job(JobSpec())
FreshJob == Job("uid-a", Some(DefaultJobSpec))

JobNumbers == (1 .. MaxJobId) \cup {42}

StrVal(s) == [kind |-> "str", items |-> <<s>>]

ListVal(l) == [kind |-> "list", items |-> l]

NoneVal == [kind |-> "none", items |-> <<>>]

MissingVal == [kind |-> "missing", items |-> <<>>]

\* qualifier flags Slurm appends after the primary state of a job
Qualifiers == {U("COMPLETING")}

\* the spellings the backends of this model answer with: every word in upper
\* case, one word in lower and in mixed case, and the empty string
AnsweredStrs ==
  {U(w) : w \in Words}
  \cup {[word |-> "RUNNING", cs |-> c] : c \in {"lower", "mixed"}} \cup {EmptyStr}

\* values of a job record's native state field
ScalarVals == {StrVal(s) : s \in AnsweredStrs} \cup {NoneVal}

ListVals == {ListVal(<<>>)}
            \cup {ListVal(<<U(w)>>) : w \in {"PENDING", "COMPLETING"}}
            \cup {ListVal(<<U(w), q>>) : w \in {"PENDING", "RUNNING"}, q \in Qualifiers}

\* the answer of one backend RPC: how the call ended, the job number of a
\* submit answer, the native state fields of the job records of a describe answer
Resp(rpc, job_id, jobs) == [rpc |-> rpc, job_id |-> job_id, jobs |-> jobs]

NoResp == Resp("none", None, <<>>)

\* ways an RPC of adapter a can end other than "ok"
RpcFailures(a) ==
  CASE a = "slurm" -> {"ApiException", "ConnectionError"}
    [] a = "nersc" -> {"HTTPError", "ConnectionError", "BadJSON"}
    [] a = "sfapi" -> {"ConnectionError"}

FailedResps(a) == {Resp(f, None, <<>>) : f \in RpcFailures(a)}

SubmitResps(a) ==
  FailedResps(a) \cup {Resp("ok", None, <<>>)}
                 \cup {Resp("ok", Some(n), <<>>) : n \in JobNumbers}

\* cancel reads no body, so an unparsable body is no failure of the cancel RPC
CancelResps(a) ==
  {Resp(f, None, <<>>) : f \in RpcFailures(a) \ {"BadJSON"}} \cup {Resp("ok", None, <<>>)}

DescribeResps(a) ==
  FailedResps(a) \cup
  CASE a = "slurm" ->
         {Resp("ok", None, <<>>)}
         \cup {Resp("ok", None, <<v>>) : v \in ScalarVals \cup ListVals}
         \cup {Resp("ok", None, <<StrVal(U(w)), StrVal(U("RUNNING"))>>) :
                 w \in {"PENDING", "COMPLETED"}}
    [] a = "nersc" -> {Resp("ok", None, <<v>>) : v \in ScalarVals \cup {MissingVal}}
    [] a = "sfapi" -> {Resp("ok", None, <<v>>) : v \in ScalarVals}

\* the jobs of a list answer: the job number each record carries, or None
ListAnswers ==
  LET ids == {None} \cup {Some(n) : n \in JobNumbers}
  IN  {<<>>} \cup {<<a>> : a \in ids} \cup {<<a, b>> : a \in ids, b \in ids}

ListResps(a) == FailedResps(a) \cup {Resp("ok", None, l) : l \in ListAnswers}

\* what one adapter call did: the job afterwards, whether it returned ("ok") or
\* raised ("raise") and what, the RPCs it issued, the mapper's argument and result
Eff(j, outcome, exc, rpcs, mapIn, mapOut) ==
  [job |-> j, outcome |-> outcome, exc |-> exc, rpcs |-> rpcs,
   mapIn |-> mapIn, mapOut |-> mapOut]

Returned(j, rpcs) == Eff(j, "ok", "", rpcs, None, "")

Raised(j, exc, rpcs) == Eff(j, "raise", exc, rpcs, None, "")

(* ------------------------------- submit ------------------------------- *)

\* submit with one retry after an ApiException
SlurmSubmitEff_Retry(j, r) ==
  CASE r.rpc = "ok" ->
         Returned([j EXCEPT !.native_id = Some(PyStr(r.job_id)), !.status = "QUEUED"], 1)
    [] r.rpc = "ApiException" -> Raised(j, "Exception: Failed to submit job", 2)
    [] OTHER -> Raised(j, r.rpc, 1)

\* SlurmRestAPIExecutor.submit: one slurm_v0041_post_job_submit call; on success
\* native_id = str(response.job_id) and status QUEUED; ApiException is re-raised
\* as Exception, anything else propagates as it is
SlurmSubmitEff(j, r) ==
  CASE r.rpc = "ok" ->
         Returned([j EXCEPT !.native_id = Some(PyStr(r.job_id)), !.status = "QUEUED"], 1)
    [] r.rpc = "ApiException" -> Raised(j, "Exception: Failed to submit job", 1)
    [] OTHER -> Raised(j, r.rpc, 1)

\* NERSCExecutor.submit: _check_job, then one requests.post; raise_for_status and
\* response.json() may raise; on success native_id = response_data.get("jobid")
\* (the decimal string the facility returns, or None) and nothing else is written
NerscSubmitEff(j, checkOk, r) ==
  CASE ~checkOk -> Raised(j, "InvalidJobException", 0)
    [] checkOk /\ r.rpc = "ok" ->
         Returned([j EXCEPT !.native_id =
                     IF r.job_id = None THEN None ELSE Some(Str(r.job_id[1]))], 1)
    [] OTHER -> Raised(j, r.rpc, 1)

\* SuperfacilityAPIExecutor.submit (the second definition, which is the one in
\* effect): one submit_job_compute_jobs_machine_post.sync call, then
\* native_id = response.job_id and status QUEUED
SfapiSubmitEff(j, r) ==
  CASE r.rpc = "ok" ->
         Returned([j EXCEPT !.native_id =
                     IF r.job_id = None THEN None ELSE Some(Str(r.job_id[1])),
                   !.status = "QUEUED"], 1)
    [] OTHER -> Raised(j, r.rpc, 1)

(* ------------------------------- cancel ------------------------------- *)

\* cancel that ignores an ApiException of the delete call
SlurmCancelEff_Swallow(j, r) ==
  CASE ~Truthy(j.native_id) -> Returned(j, 0)
    [] Truthy(j.native_id) /\ r.rpc \in {"ok", "ApiException"} ->
         Returned([j EXCEPT !.status = "CANCELED"], 1)
    [] OTHER -> Raised(j, r.rpc, 1)

\* cancel that also forgets the native id of the job it cancelled
SlurmCancelEff_Forgets(j, r) ==
  CASE ~Truthy(j.native_id) -> Returned(j, 0)
    [] Truthy(j.native_id) /\ r.rpc = "ok" ->
         Returned([j EXCEPT !.status = "CANCELED", !.native_id = None], 1)
    [] Truthy(j.native_id) /\ r.rpc = "ApiException" ->
         Raised(j, "Exception: Failed to cancel job", 1)
    [] OTHER -> Raised(j, r.rpc, 1)

\* SlurmRestAPIExecutor.cancel: only when job.native_id is truthy, one
\* slurm_v0040_delete_job call and then status CANCELED; otherwise it returns
SlurmCancelEff(j, r) ==
  CASE ~Truthy(j.native_id) -> Returned(j, 0)
    [] Truthy(j.native_id) /\ r.rpc = "ok" -> Returned([j EXCEPT !.status = "CANCELED"], 1)
    [] Truthy(j.native_id) /\ r.rpc = "ApiException" ->
         Raised(j, "Exception: Failed to cancel job", 1)
    [] OTHER -> Raised(j, r.rpc, 1)

\* NERSCExecutor.cancel(self, job, access_token): a call without the access_token
\* argument is a TypeError; without a native_id it raises; else one requests.delete
\* and raise_for_status; the job is not written
NerscCancelEff(j, withToken, r) ==
  CASE ~withToken -> Raised(j, "TypeError", 0)
    [] withToken /\ ~Truthy(j.native_id) ->
         Raised(j, "Exception: Job ID is required for cancellation", 0)
    [] withToken /\ Truthy(j.native_id) /\ r.rpc = "ok" -> Returned(j, 1)
    [] OTHER -> Raised(j, r.rpc, 1)

\* SuperfacilityAPIExecutor.cancel: only when job.native_id is truthy, one
\* cancel_task_tasks_id_delete.sync call and then status CANCELED
SfapiCancelEff(j, r) ==
  CASE ~Truthy(j.native_id) -> Returned(j, 0)
    [] Truthy(j.native_id) /\ r.rpc = "ok" -> Returned([j EXCEPT !.status = "CANCELED"], 1)
    [] OTHER -> Raised(j, r.rpc, 1)

(* ----------------------------- poll-status ---------------------------- *)

\* truthiness of `job_info.job_state or ''`: a non-empty string or a non-empty list
StateTruthy(v) ==
  \/ v.kind = "str" /\ v.items[1] # EmptyStr
  \/ v.kind = "list" /\ v.items # <<>>

\* the last element of a list-valued state instead of the first
PrimaryState_Last(v) ==
  IF v.kind \in {"list", "str"} /\ v.items # <<>> THEN v.items[Len(v.items)] ELSE EmptyStr

\* state[0] if isinstance(state, list) and state else state if isinstance(state, str) else ''
PrimaryState(v) == IF v.kind \in {"list", "str"} /\ v.items # <<>> THEN v.items[1] ELSE EmptyStr

\* a poll that keeps a CANCELED status whatever the backend answers
SlurmPollEff_StickyCancel(j, r) ==
  CASE ~Truthy(j.native_id) -> Returned(j, 0)
    [] Truthy(j.native_id) /\ r.rpc = "ApiException" ->
         Raised(j, "Exception: Failed to get job status", 1)
    [] Truthy(j.native_id) /\ r.rpc = "ok" ->
         IF Len(r.jobs) > 0 /\ StateTruthy(r.jobs[1]) /\ j.status # "CANCELED"
         THEN LET primary_slurm_state == PrimaryState(r.jobs[1])
                  job_state == _map_slurm_state_to_psij(primary_slurm_state)
              IN  IF job_state = RAISE
                  THEN Eff(j, "raise", "Exception: Invalid job status code", 1,
                           Some(primary_slurm_state), job_state)
                  ELSE Eff([j EXCEPT !.status = job_state], "ok", "", 1,
                           Some(primary_slurm_state), job_state)
         ELSE Returned(j, 1)
    [] OTHER -> Raised(j, r.rpc, 1)

\* SlurmRestAPIExecutor._update_job_status
SlurmPollEff(j, r) ==
  CASE ~Truthy(j.native_id) -> Returned(j, 0)
    [] Truthy(j.native_id) /\ r.rpc = "ApiException" ->
         Raised(j, "Exception: Failed to get job status", 1)
    [] Truthy(j.native_id) /\ r.rpc = "ok" ->
         IF Len(r.jobs) > 0 /\ StateTruthy(r.jobs[1])
         THEN LET primary_slurm_state == PrimaryState(r.jobs[1])
                  job_state == _map_slurm_state_to_psij(primary_slurm_state)
              IN  IF job_state = RAISE
                  THEN Eff(j, "raise", "Exception: Invalid job status code", 1,
                           Some(primary_slurm_state), job_state)
                  ELSE Eff([j EXCEPT !.status = job_state], "ok", "", 1,
                           Some(primary_slurm_state), job_state)
         ELSE Returned(j, 1)
    [] OTHER -> Raised(j, r.rpc, 1)

\* NERSCExecutor._update_job_status
NerscPollEff(j, r) ==
  CASE ~Truthy(j.native_id) -> Raised(j, "Exception: Job ID is required to check status", 0)
    [] Truthy(j.native_id) /\ r.rpc = "ok" ->
         LET v == r.jobs[1]
             \* job_info.get("status", "UNKNOWN")
             nersc_state == IF v.kind = "missing" THEN U("UNKNOWN") ELSE PrimaryState(v)
             job_state == _map_nersc_state_to_psij(nersc_state)
         IN  IF v.kind = "none"
             THEN Raised(j, "AttributeError", 1)
             ELSE Eff([j EXCEPT !.status = job_state], "ok", "", 1, Some(nersc_state), job_state)
    [] OTHER -> Raised(j, "Exception: Failed to get job status", 1)

\* SuperfacilityAPIExecutor._update_job_status
SfapiPollEff(j, r) ==
  CASE ~Truthy(j.native_id) -> Returned(j, 0)
    [] Truthy(j.native_id) /\ r.rpc = "ok" ->
         LET v == r.jobs[1]
             job_state == IF v.kind = "none" THEN "UNKNOWN"
                          ELSE _map_superfacility_state_to_psij(PrimaryState(v))
         IN  Eff([j EXCEPT !.status = job_state], "ok", "", 1,
                 IF v.kind = "none" THEN None ELSE Some(PrimaryState(v)), job_state)
    [] OTHER -> Raised(j, r.rpc, 1)

PollEff(a, j, r) ==
  CASE a = "slurm" -> SlurmPollEff(j, r)
    [] a = "nersc" -> NerscPollEff(j, r)
    [] a = "sfapi" -> SfapiPollEff(j, r)

(* -------------------------------- list -------------------------------- *)

\* what a list call did: as Eff, with the value returned (None, or the list)
ListedEff(j, outcome, exc, rpcs, ret) ==
  [job |-> j, outcome |-> outcome, exc |-> exc, rpcs |-> rpcs,
   mapIn |-> None, mapOut |-> "", ret |-> ret]

RECURSIVE SlurmJobIds(_)
\* [str(job_info.job_id) for job_info in response.jobs]
SlurmJobIds(jobs) ==
  IF jobs = <<>> THEN <<>> ELSE <<PyStr(Head(jobs))>> \o SlurmJobIds(Tail(jobs))

RECURSIVE NerscJobIds(_)
\* [str(job_info.get("jobid")) for job_info in job_data_list if job_info.get("jobid")]
NerscJobIds(jobs) ==
  IF jobs = <<>> THEN <<>>
  ELSE (IF Head(jobs) # None /\ Head(jobs)[1] # 0 THEN <<Str(Head(jobs)[1])>> ELSE <<>>)
       \o NerscJobIds(Tail(jobs))

\* SlurmRestAPIExecutor.list: one slurm_v0040_get_jobs call; ApiException is
\* re-raised as Exception, anything else propagates as it is
SlurmListEff(j, r) ==
  CASE r.rpc = "ok" -> ListedEff(j, "ok", "", 1, Some(SlurmJobIds(r.jobs)))
    [] r.rpc = "ApiException" -> ListedEff(j, "raise", "Exception: Failed to list jobs", 1, None)
    [] OTHER -> ListedEff(j, "raise", r.rpc, 1, None)

\* NERSCExecutor.list(access_token): a call without the access_token argument is a
\* TypeError; one requests.get; raise_for_status and response.json() may raise
NerscListEff(j, withToken, r) ==
  CASE ~withToken -> ListedEff(j, "raise", "TypeError", 0, None)
    [] withToken /\ r.rpc = "ok" -> ListedEff(j, "ok", "", 1, Some(NerscJobIds(r.jobs)))
    [] OTHER -> ListedEff(j, "raise", r.rpc, 1, None)

\* SuperfacilityAPIExecutor.list: pass
SfapiListEff(j, r) == ListedEff(j, "ok", "", 0, None)

(* ------------------------------- attach ------------------------------- *)

\* attach that polls without binding the native id first
AttachEff_NoBind(a, j, native_id, r) == PollEff(a, j, r)

\* attach: job._native_id = native_id, then _update_job_status(job)
AttachEff(a, j, native_id, r) == PollEff(a, [j EXCEPT !.native_id = Some(native_id)], r)

\* native ids handed to attach: decimal strings, and the empty string
AttachIds == {Str(n) : n \in JobNumbers} \cup {<<>>}

(* ----------------------- the Slurm submit request --------------------- *)

\* the request whose nodes field is "1" whatever the job asks for
SlurmSubmitRequest_OneNode(spec) ==
  LET job_spec == IF spec # None THEN spec[1] ELSE DefaultJobSpec
  IN  [nodes |-> Str(1),
       time_limit |-> [set |-> TRUE, number |-> job_spec.duration \div 60],
       current_working_directory |-> job_spec.directory]

\* the request whose time limit rounds the duration up to the next minute
SlurmSubmitRequest_RoundUp(spec) ==
  LET job_spec == IF spec # None THEN spec[1] ELSE DefaultJobSpec
      node_count ==
        IF job_spec.resources # None /\ job_spec.resources[1].cls = "ResourceSpecV1"
        THEN job_spec.resources[1].node_count
        ELSE Some(1)
  IN  [nodes |-> PyStr(node_count),
       time_limit |-> [set |-> TRUE, number |-> (job_spec.duration + 59) \div 60],
       current_working_directory |-> job_spec.directory]

\* the job of the SlurmV0041PostJobSubmitRequest that submit builds from job.spec
SlurmSubmitRequest(spec) ==
  LET job_spec == IF spec # None THEN spec[1] ELSE DefaultJobSpec
      total_minutes == job_spec.duration \div 60
      node_count ==
        IF job_spec.resources # None /\ job_spec.resources[1].cls = "ResourceSpecV1"
        THEN job_spec.resources[1].node_count
        ELSE Some(1)
  IN  [nodes |-> PyStr(node_count),
       time_limit |-> [set |-> TRUE, number |-> total_minutes],
       current_working_directory |-> job_spec.directory]

(* ------------------------------ the factory --------------------------- *)

SlurmClass == "psijd.executors.psij_slurmrestd.psij_slurmrestd.slurmrestd.SlurmRestAPIExecutor"

SlurmConfigClass ==
  "psijd.executors.psij_slurmrestd.psij_slurmrestd.slurmrestd.SlurmRestAPIExecutorConfig"

NerscClass == "psijd.executors.psij_nersc.psij_nersc.nersc.NERSCExecutor"

NerscConfigClass == "psijd.executors.psij_nersc.psij_nersc.nersc.NERSCExecutorConfig"

BACKEND_CONFIGS ==
  ("slac" :> ("v0.1.0" :> [class |-> SlurmClass, url |-> "http://slurmrestd:9200",
                            config_class |-> SlurmConfigClass,
                            config |-> ("verify_ssl" :> "False")]))
  @@
  ("nersc" :> ("v0.1.0" :> [class |-> NerscClass, url |-> "https://api.nersc.gov/v1",
                             config_class |-> NerscConfigClass,
                             config |-> <<>>]))

BackendNames == {"slac", "nersc", "slurm", "unknown"}

VersionNames == {"v0.1.0", "v9.9.9"}

Tokens == {"tokA", "tokB"}

BackendRegistered(backend) == backend \in DOMAIN BACKEND_CONFIGS

VersionRegistered(backend, version) == version \in DOMAIN BACKEND_CONFIGS[backend]

\* keyword parameter `key` of a config constructor, with its default
Param(params, key, default) == IF key \in DOMAIN params THEN params[key] ELSE default

\* SlurmRestAPIExecutorConfig(token='', verify_ssl=True) and
\* NERSCExecutorConfig(client_id='', client_private_key='', token='')
ConfigObject(config_class, params) ==
  [cls |-> config_class, token |-> Param(params, "token", ""),
   verify_ssl |-> IF config_class = SlurmConfigClass
                  THEN Param(params, "verify_ssl", "True") ELSE "n/a"]

FactoryResult(outcome, exc, imported, config, executor) ==
  [outcome |-> outcome, exc |-> exc, imported |-> imported,
   config |-> config, executor |-> executor]

\* get_executor falling back to the backend's only version for an unknown one
get_executor_AnyVersion(backend, version, access_token, importOk) ==
  IF ~BackendRegistered(backend)
  THEN FactoryResult("raise", "ValueError: Unknown backend", {}, None, None)
  ELSE LET config == factory.registry[backend]["v0.1.0"]
           executor_config_params ==
             IF access_token # None
             THEN ("token" :> access_token[1]) @@ config.config
             ELSE config.config
           executor_config == ConfigObject(config.config_class, executor_config_params)
       IN  IF ~importOk
           THEN FactoryResult("raise", "RuntimeError: Failed to instantiate executor",
                              {}, None, None)
           ELSE FactoryResult("ok", "", {config.class, config.config_class},
                              Some(executor_config),
                              Some([cls |-> config.class, url |-> config.url,
                                    config |-> executor_config]))

\* get_executor that builds the config from the registry's parameters alone
get_executor_StaticToken(backend, version, access_token, importOk) ==
  IF ~BackendRegistered(backend)
  THEN FactoryResult("raise", "ValueError: Unknown backend", {}, None, None)
  ELSE IF ~VersionRegistered(backend, version)
  THEN FactoryResult("raise", "ValueError: Unknown version", {}, None, None)
  ELSE LET config == factory.registry[backend][version]
           executor_config == ConfigObject(config.config_class, config.config)
       IN  IF ~importOk
           THEN FactoryResult("raise", "RuntimeError: Failed to instantiate executor",
                              {}, None, None)
           ELSE FactoryResult("ok", "", {config.class, config.config_class},
                              Some(executor_config),
                              Some([cls |-> config.class, url |-> config.url,
                                    config |-> executor_config]))

\* get_executor(backend, version, access_token); importOk: whether
\* importlib.import_module finds the executor's module
get_executor(backend, version, access_token, importOk) ==
  IF ~BackendRegistered(backend)
  THEN FactoryResult("raise", "ValueError: Unknown backend", {}, None, None)
  ELSE IF ~VersionRegistered(backend, version)
  THEN FactoryResult("raise", "ValueError: Unknown version", {}, None, None)
  ELSE LET config == factory.registry[backend][version]
           executor_config_params ==
             IF access_token # None
             THEN ("token" :> access_token[1]) @@ config.config
             ELSE config.config
           executor_config == ConfigObject(config.config_class, executor_config_params)
       IN  IF ~importOk
           THEN FactoryResult("raise", "RuntimeError: Failed to instantiate executor",
                              {}, None, None)
           ELSE FactoryResult("ok", "", {config.class, config.config_class},
                              Some(executor_config),
                              Some([cls |-> config.class, url |-> config.url,
                                    config |-> executor_config]))

\* a get_executor that writes the token into the registry's own config dict
RegistryAfter_NoCopy(backend, version, access_token, importOk) ==
  IF /\ BackendRegistered(backend) /\ VersionRegistered(backend, version)
     /\ importOk /\ access_token # None
  THEN [factory.registry EXCEPT ![backend][version].config =
          ("token" :> access_token[1]) @@ @]
  ELSE factory.registry

\* the module global BACKEND_CONFIGS after a get_executor call: the call writes
\* the token into executor_config_params, a copy() of the registry's config dict,
\* and assigns nothing else, so the registry is as before
RegistryAfter(backend, version, access_token, importOk) == factory.registry

(* ------------------------------ the gateway --------------------------- *)

\* the adapters the gateway serves: app.py's routes drive the Slurm REST executor
\* ("slac"), the routes of routers/nersc/v0_1_0.py the NERSC executor
RoutedAdapters == {"slurm", "nersc"}

\* SLURM_JWT when the environment variable is not set
SLURM_JWT == "invalid token"

\* a character that str.isdigit() accepts and int() rejects: SUPERSCRIPT TWO
SuperscriptTwo == "sup2"

DecimalChars == {"0", "1", "2", "3", "4", "5", "6", "7", "8", "9"}

DigitVal(c) ==
  CASE c = "0" -> 0 [] c = "1" -> 1 [] c = "2" -> 2 [] c = "3" -> 3 [] c = "4" -> 4
    [] c = "5" -> 5 [] c = "6" -> 6 [] c = "7" -> 7 [] c = "8" -> 8 [] c = "9" -> 9

\* str.isdigit(): not empty, and every character a decimal or another digit
isdigit(str) ==
  /\ str # <<>>
  /\ \A i \in 1..Len(str) : str[i] \in DecimalChars \cup {SuperscriptTwo}

\* whether int(str) of an isdigit string returns; otherwise it raises ValueError
IntParses(str) == \A i \in 1..Len(str) : str[i] \in DecimalChars

RECURSIVE int(_)
\* int(str) of a string of decimal characters
int(str) ==
  IF str = <<>> THEN 0
  ELSE 10 * int(SubSeq(str, 1, Len(str) - 1)) + DigitVal(str[Len(str)])

\* values of the {job_id} path parameter: the native ids, "0", "-5", "07", "id"
\* and the one-character string SUPERSCRIPT TWO
PathIds ==
  {Str(n) : n \in JobNumbers}
  \cup {<<"0">>, <<"-", "5">>, <<"0", "7">>, <<"i", "d">>, <<SuperscriptTwo>>}

\* Authorization header values: None, or the header's text as a sequence of words
\* and whitespace runs (" ")
AuthHeaders ==
  {None, Some(<<>>), Some(<<" ">>)}
  \cup {Some(<<"Bearer", " ", t>>) : t \in Tokens}
  \cup {Some(<<"bearer", " ", " ", "tokA">>), Some(<<"Basic", " ", "tokA">>),
        Some(<<"Bearer", " ", "tokA", " ", "x">>)}

\* str.split(): the words between whitespace runs
split(text) == SelectSeq(text, LAMBDA w : w # " ")

\* str.lower()
lower(w) ==
  CASE w \in {"Bearer", "BEARER", "bearer"} -> "bearer"
    [] w = "Basic" -> "basic"
    [] OTHER -> w

\* get_bearer_token that compares the scheme with "Bearer" as written
get_bearer_token_CaseSensitive(authorization) ==
  IF authorization = None \/ authorization[1] = <<>>
  THEN [status |-> 401, detail |-> "Authorization header is missing", token |-> None]
  ELSE LET parts == split(authorization[1])
       IN  IF Len(parts) # 2 \/ parts[1] # "Bearer"
           THEN [status |-> 401, detail |-> "Invalid Authorization header format",
                 token |-> None]
           ELSE [status |-> 200, detail |-> "", token |-> Some(parts[2])]

\* get_bearer_token(authorization): the token, or HTTPException(401)
get_bearer_token(authorization) ==
  IF authorization = None \/ authorization[1] = <<>>
  THEN [status |-> 401, detail |-> "Authorization header is missing", token |-> None]
  ELSE LET parts == split(authorization[1])
       IN  IF Len(parts) # 2 \/ lower(parts[1]) # "bearer"
           THEN [status |-> 401, detail |-> "Invalid Authorization header format",
                 token |-> None]
           ELSE [status |-> 200, detail |-> "", token |-> Some(parts[2])]

\* members of JobStateEx
JobStateExValues == {"NEW", "QUEUED", "ACTIVE", "COMPLETED", "FAILED", "CANCELED"}

\* an HTTP response: status code, detail of an error, and the fields of the body
\* (id and state of a job, the list of job ids)
Reply(status, detail, id, state, jobs) ==
  [status |-> status, detail |-> detail, id |-> id, state |-> state, jobs |-> jobs]

ErrorReply(status, detail) == Reply(status, detail, None, "", None)

\* what a route did: the executor call it made (op "none": no call), that call's
\* effect, the token of the executor it resolved, and its response
Routed(op, e, arg, token, reply) ==
  [op |-> op, e |-> e, arg |-> arg, token |-> token, reply |-> reply]

NoEff == Returned(FreshJob, 0)

Unrouted(token, reply) == Routed("none", NoEff, None, token, reply)

\* the job a cancel route builds: Job() with _native_id = job_id
JobWithId(job_id) == [Job("uid-a", None) EXCEPT !.native_id = Some(job_id)]

\* response of a status route to the outcome of attach:
\* JobStateEx(str(job.status.state)) raises ValueError for a state it lacks
StatusReply(job_id, e) ==
  IF e.outcome = "ok" /\ e.job.status \in JobStateExValues
  THEN Reply(200, "", Some(job_id), e.job.status, None)
  ELSE ErrorReply(404, "Job not found")

\* the check of job_id in both status routes; "" when it passes, "ValueError"
\* when int(job_id) raises, which no handler catches (500)
CheckJobId(job_id) ==
  IF ~isdigit(job_id) THEN "Invalid job_id. It must be an integer greater than 0."
  ELSE IF ~IntParses(job_id) THEN "ValueError"
  ELSE IF int(job_id) <= 0 THEN "Invalid job_id. It must be an integer greater than 0."
  ELSE ""

InvalidJobIdReply(check) ==
  IF check = "ValueError" THEN ErrorReply(500, "Internal Server Error")
  ELSE ErrorReply(400, check)

\* app.py POST /job: the JobSpec is built from the request (JobAttributes takes
\* JobAttributesEx's integer duration, on which submit's total_seconds() raises
\* AttributeError), then executor.submit(job); 201 with str(job._native_id), or 500
app_submit_job(withAttributes, r) ==
  LET e == IF withAttributes THEN Raised(FreshJob, "AttributeError", 0)
           ELSE SlurmSubmitEff(FreshJob, r)
  IN  Routed("submit", e, None, Some(SLURM_JWT),
             IF e.outcome = "ok"
             THEN Reply(201, "", e.job.native_id, "QUEUED", None)
             ELSE ErrorReply(500, e.exc))

\* app.py GET /job/{job_id}
app_get_job_status(job_id, r) ==
  LET check == CheckJobId(job_id)
      e == AttachEff("slurm", FreshJob, job_id, r)
  IN  IF check # "" THEN Unrouted(Some(SLURM_JWT), InvalidJobIdReply(check))
      ELSE Routed("attach", e, Some(job_id), Some(SLURM_JWT), StatusReply(job_id, e))

\* app.py DELETE /job/{job_id}
app_cancel_job(job_id, r) ==
  LET e == SlurmCancelEff(JobWithId(job_id), r)
  IN  Routed("cancel", e, Some(job_id), Some(SLURM_JWT),
             IF e.outcome = "ok" THEN Reply(204, "", None, "", None)
             ELSE ErrorReply(404, "Failed to cancel job"))

\* app.py GET /jobs
app_list_jobs(r) ==
  LET e == SlurmListEff(FreshJob, r)
  IN  Routed("list", e, None, Some(SLURM_JWT),
             IF e.outcome = "ok" THEN Reply(200, "", None, "", e.ret)
             ELSE ErrorReply(500, e.exc))

\* get_nersc_executor_with_token: the token of the executor get_executor returns
nersc_executor_token(access_token) ==
  Some(get_executor("nersc", "v0.1.0", access_token, TRUE).executor[1].config.token)

\* routers/nersc/v0_1_0.py POST /job: executor.submit(job); 500 when the job has
\* no native id afterwards or submit raised, else 201
nersc_submit_job(authorization, checkOk, r) ==
  LET auth == get_bearer_token(authorization)
      e == NerscSubmitEff(FreshJob, checkOk, r)
  IN  IF auth.status = 401 THEN Unrouted(None, ErrorReply(401, auth.detail))
      ELSE Routed("submit", e, None, nersc_executor_token(auth.token),
                  IF e.outcome = "ok" /\ Truthy(e.job.native_id)
                  THEN Reply(201, "", e.job.native_id, "QUEUED", None)
                  ELSE ErrorReply(500, IF e.outcome = "ok" THEN "no native ID" ELSE e.exc))

\* routers/nersc/v0_1_0.py GET /job/{job_id}
nersc_get_job_status(authorization, job_id, r) ==
  LET auth == get_bearer_token(authorization)
      check == CheckJobId(job_id)
      e == AttachEff("nersc", FreshJob, job_id, r)
  IN  IF auth.status = 401 THEN Unrouted(None, ErrorReply(401, auth.detail))
      ELSE IF check # ""
      THEN Unrouted(nersc_executor_token(auth.token), InvalidJobIdReply(check))
      ELSE Routed("attach", e, Some(job_id), nersc_executor_token(auth.token),
                  StatusReply(job_id, e))

\* routers/nersc/v0_1_0.py DELETE /job/{job_id}: executor.cancel(job) is called
\* without the access_token argument
nersc_cancel_job(authorization, job_id, r) ==
  LET auth == get_bearer_token(authorization)
      e == NerscCancelEff(JobWithId(job_id), FALSE, r)
  IN  IF auth.status = 401 THEN Unrouted(None, ErrorReply(401, auth.detail))
      ELSE Routed("cancel", e, Some(job_id), nersc_executor_token(auth.token),
                  IF e.outcome = "ok" THEN Reply(204, "", None, "", None)
                  ELSE ErrorReply(404, "Failed to cancel job"))

\* routers/nersc/v0_1_0.py GET /jobs: executor.list() is called without the
\* access_token argument
nersc_list_jobs(authorization, r) ==
  LET auth == get_bearer_token(authorization)
      e == NerscListEff(FreshJob, FALSE, r)
  IN  IF auth.status = 401 THEN Unrouted(None, ErrorReply(401, auth.detail))
      ELSE Routed("list", e, None, nersc_executor_token(auth.token),
                  IF e.outcome = "ok" THEN Reply(200, "", None, "", e.ret)
                  ELSE ErrorReply(500, e.exc))

(* ----------------------- JobEx and psij Job --------------------------- *)

\* JobEx.id after JobEx.__init__: never None; the empty string is a str too
ExIds == {"", "uid-a", "uid-b"}

\* the id a psij Job gives itself when it is constructed
NewUid == "uid-new"

\* JobEx.native_id: Optional[str]
ExNativeIds == {None, Some(<<>>), Some(Str(42))}

\* a value of status.state that is no member of the six-state enumerations
OutsideState == "UNKNOWN"

\* JobSpecEx, of which directory and resources.node_count are carried here
\* (attributes None)
ExSpecs ==
  {None, Some([directory |-> None, resources |-> None]),
   Some([directory |-> Some("/work"), resources |-> Some([node_count |-> Some(3)])])}

\* JobEx after __init__: id and status are set
JobExValues ==
  [id : ExIds, native_id : ExNativeIds,
   state : JobStateExValues \cup {OutsideState}, spec : ExSpecs]

\* state_mapping of convert_to_psij_job and of convert_from_psij_job
state_mapping == {<<s, s>> : s \in JobStateExValues}

\* convert_to_psij_job(job_ex): Job(spec=...), then _id when job_ex.id is truthy,
\* _native_id when job_ex.native_id is truthy, and _status from state_mapping
\* with JobState.NEW as the default
convert_to_psij_job(job_ex) ==
  LET spec == IF job_ex.spec # None
              THEN Some([resources |->
                           IF job_ex.spec[1].resources # None
                           THEN Some([cls |-> "ResourceSpecV1",
                                      node_count |-> job_ex.spec[1].resources[1].node_count])
                           ELSE None,
                         duration |-> DefaultJobSpec.duration,
                         directory |-> job_ex.spec[1].directory])
              ELSE None
  IN  [Job(NewUid, spec) EXCEPT
         !.id = IF job_ex.id # "" THEN job_ex.id ELSE @,
         !.native_id = IF Truthy(job_ex.native_id) THEN job_ex.native_id ELSE @,
         !.status = DictGet(state_mapping, job_ex.state, "NEW")]

\* convert_from_psij_job(psij_job): JobEx(id, native_id, status, spec) with the
\* state from state_mapping, JobStateEx.NEW as the default
convert_from_psij_job(psij_job) ==
  [id |-> psij_job.id,
   native_id |-> psij_job.native_id,
   state |-> DictGet(state_mapping, psij_job.status, "NEW"),
   spec |-> IF psij_job.spec # None
            THEN Some([directory |-> psij_job.spec[1].directory,
                       resources |->
                         IF psij_job.spec[1].resources # None
                         THEN Some([node_count |-> psij_job.spec[1].resources[1].node_count])
                         ELSE None])
            ELSE None]

\* psij Jobs handed to convert_from_psij_job
PsijJobs ==
  {[Job(id, spec) EXCEPT !.native_id = n, !.status = st] :
     id \in {"uid-a", "uid-b"}, spec \in {None, Some(WorkJobSpec)},
     n \in {None, Some(Str(42))}, st \in AbstractStates}

(* ------------------------------ the machine --------------------------- *)

\* the record of the latest adapter call
\* (preStatus: the job's status when the call was made; arg: attach's native_id;
\* ret: the value a list call returned)
Call(op, e, r, pre, arg) ==
  [op |-> op, outcome |-> e.outcome, exc |-> e.exc, rpcs |-> e.rpcs,
   resp |-> IF e.rpcs = 0 THEN NoResp ELSE r, preStatus |-> pre.status, arg |-> arg,
   mapIn |-> e.mapIn, mapOut |-> e.mapOut,
   ret |-> IF "ret" \in DOMAIN e THEN e.ret ELSE None]

NoCall == Call("none", Returned(FreshJob, 0), NoResp, FreshJob, None)

\* the record of the latest get_executor call, the executor the call before it
\* returned, and the module global BACKEND_CONFIGS as the calls have left it
NoFactoryCall ==
  [backend |-> "", version |-> "", access_token |-> None,
   result |-> FactoryResult("none", "", {}, None, None), earlier |-> None,
   registry |-> BACKEND_CONFIGS]

\* no conversion made yet
NoConversion ==
  [op |-> "none", job_ex |-> convert_from_psij_job(FreshJob), psij |-> FreshJob,
   back |-> convert_from_psij_job(FreshJob)]

\* no submit request built yet
NoRequest == [built |-> FALSE, spec |-> None, job |-> SlurmSubmitRequest(None)]

\* no HTTP exchange yet
NoExchange ==
  [route |-> "none", authorization |-> None, job_id |-> None, token |-> None,
   answer |-> NoResp,
   reply |-> ErrorReply(0, "")]

Init ==
  /\ adapter \in Adapters
  /\ job = FreshJob
  /\ last = NoCall
  /\ submitCalls = 0
  /\ submitRpcs = 0
  /\ nativeJobs = 0
  /\ factory = NoFactoryCall
  /\ request = NoRequest
  /\ http = NoExchange
  /\ submitted = None
  /\ cancelled = FALSE
  /\ conversion = NoConversion

\* the backend has created a native job when it accepted the submit request
Accepted(r) == r.rpc \in {"ok", "BadJSON"}

\* one submit invocation with effect e on backend answer r
DoSubmit(e, r) ==
  /\ submitCalls < MaxSubmits
  /\ job' = e.job
  /\ last' = Call("submit", e, r, job, None)
  /\ submitCalls' = submitCalls + 1
  /\ submitRpcs' = submitRpcs + e.rpcs
  /\ nativeJobs' = nativeJobs + (IF e.rpcs > 0 /\ Accepted(r) THEN 1 ELSE 0)
  /\ UNCHANGED <<adapter, factory, request, gatewayVars, conversion>>

\* any other adapter call with effect e on backend answer r
DoCall(op, e, r, arg) ==
  /\ job' = e.job
  /\ last' = Call(op, e, r, job, arg)
  /\ UNCHANGED <<adapter, submitCalls, submitRpcs, nativeJobs, factory, request, gatewayVars,
                 conversion>>

\* the gateway builds a new Job for a request
NewJob ==
  /\ job' = FreshJob
  /\ last' = NoCall
  /\ UNCHANGED <<adapter, submitCalls, submitRpcs, nativeJobs, factory, request, gatewayVars,
                 conversion>>

SlurmSubmit ==
  /\ adapter = "slurm"
  /\ \E r \in SubmitResps("slurm") : DoSubmit(SlurmSubmitEff(job, r), r)

NerscSubmit ==
  /\ adapter = "nersc"
  /\ \E r \in SubmitResps("nersc"), checkOk \in BOOLEAN :
       DoSubmit(NerscSubmitEff(job, checkOk, r), r)

SfapiSubmit ==
  /\ adapter = "sfapi"
  /\ \E r \in SubmitResps("sfapi") : DoSubmit(SfapiSubmitEff(job, r), r)

SlurmCancel ==
  /\ adapter = "slurm"
  /\ \E r \in CancelResps("slurm") : DoCall("cancel", SlurmCancelEff(job, r), r, None)

NerscCancel ==
  /\ adapter = "nersc"
  /\ \E r \in CancelResps("nersc"), withToken \in BOOLEAN :
       DoCall("cancel", NerscCancelEff(job, withToken, r), r, None)

SfapiCancel ==
  /\ adapter = "sfapi"
  /\ \E r \in CancelResps("sfapi") : DoCall("cancel", SfapiCancelEff(job, r), r, None)

\* _update_job_status(job) of the adapter in use
Poll ==
  \E r \in DescribeResps(adapter) : DoCall("poll", PollEff(adapter, job, r), r, None)

\* attach(job, native_id) of the adapter in use
Attach ==
  \E r \in DescribeResps(adapter), native_id \in AttachIds :
    DoCall("attach", AttachEff(adapter, job, native_id, r), r, Some(native_id))

SlurmList ==
  /\ adapter = "slurm"
  /\ \E r \in ListResps("slurm") : DoCall("list", SlurmListEff(job, r), r, None)

NerscList ==
  /\ adapter = "nersc"
  /\ \E r \in ListResps("nersc"), withToken \in BOOLEAN :
       DoCall("list", NerscListEff(job, withToken, r), r, None)

SfapiList ==
  /\ adapter = "sfapi"
  /\ \E r \in ListResps("sfapi") : DoCall("list", SfapiListEff(job, r), r, None)

GetExecutor ==
  /\ \E backend \in BackendNames, version \in VersionNames,
        access_token \in {None} \cup {Some(t) : t \in Tokens}, importOk \in BOOLEAN :
       factory' = [backend |-> backend, version |-> version, access_token |-> access_token,
                   result |-> get_executor(backend, version, access_token, importOk),
                   earlier |-> factory.result.executor,
                   registry |-> RegistryAfter(backend, version, access_token, importOk)]
  /\ UNCHANGED <<adapter, job, last, submitCalls, submitRpcs, nativeJobs, request, gatewayVars,
                 conversion>>

Next ==
  \/ NewJob
  \/ SlurmSubmit
  \/ NerscSubmit
  \/ SfapiSubmit
  \/ SlurmCancel
  \/ NerscCancel
  \/ SfapiCancel
  \/ Poll
  \/ Attach
  \/ SlurmList
  \/ NerscList
  \/ SfapiList

Spec == Init /\ [][Next]_vars

\* the factory on its own: get_executor reads BACKEND_CONFIGS and its arguments only
FactoryInit == Init /\ adapter = "slurm"

FactoryNext == GetExecutor

FactorySpec == FactoryInit /\ [][FactoryNext]_vars

\* the request building of SlurmRestAPIExecutor.submit on its own: the request is
\* a function of job.spec alone and is complete before the submit RPC is sent
BuildSubmitRequest ==
  /\ \E spec \in SpecValues :
       request' = [built |-> TRUE, spec |-> spec, job |-> SlurmSubmitRequest(spec)]
  /\ UNCHANGED <<adapter, job, last, submitCalls, submitRpcs, nativeJobs, factory,
               gatewayVars, conversion>>

RequestInit == Init /\ adapter = "slurm"

RequestNext == BuildSubmitRequest

RequestSpec == RequestInit /\ [][RequestNext]_vars

\* one HTTP exchange on `route`: the route's executor call acts on the request's
\* own Job, `answer` is what the backend answers to an RPC of this request
Exchange(route, authorization, job_id, x, answer) ==
  /\ job' = x.e.job
  /\ last' = IF x.op = "none" THEN NoCall
             ELSE Call(x.op, x.e, answer, IF x.op = "cancel" THEN JobWithId(job_id[1])
                                          ELSE FreshJob, x.arg)
  /\ http' = [route |-> route, authorization |-> authorization, job_id |-> job_id,
              token |-> x.token, answer |-> answer, reply |-> x.reply]
  /\ submitted' = IF route = "POST /job" /\ x.reply.status = 201
                  THEN x.reply.id ELSE submitted
  /\ cancelled' = IF route = "POST /job" /\ x.reply.status = 201 THEN FALSE
                  ELSE IF route = "DELETE /job" /\ x.reply.status = 204
                          /\ submitted # None /\ job_id = submitted
                  THEN TRUE ELSE cancelled
  /\ UNCHANGED <<adapter, submitCalls, submitRpcs, nativeJobs, factory, request, conversion>>

AppSubmitJob ==
  /\ adapter = "slurm"
  /\ \E r \in SubmitResps("slurm"), withAttributes \in BOOLEAN :
       Exchange("POST /job", None, None, app_submit_job(withAttributes, r), r)

AppGetJobStatus ==
  /\ adapter = "slurm"
  /\ \E r \in DescribeResps("slurm"), job_id \in PathIds :
       Exchange("GET /job", None, Some(job_id), app_get_job_status(job_id, r), r)

AppCancelJob ==
  /\ adapter = "slurm"
  /\ \E r \in CancelResps("slurm"), job_id \in PathIds :
       Exchange("DELETE /job", None, Some(job_id), app_cancel_job(job_id, r), r)

AppListJobs ==
  /\ adapter = "slurm"
  /\ \E r \in ListResps("slurm") : Exchange("GET /jobs", None, None, app_list_jobs(r), r)

NerscSubmitJob ==
  /\ adapter = "nersc"
  /\ \E r \in SubmitResps("nersc"), checkOk \in BOOLEAN, authorization \in AuthHeaders :
       Exchange("POST /job", authorization, None, nersc_submit_job(authorization, checkOk, r), r)

NerscGetJobStatus ==
  /\ adapter = "nersc"
  /\ \E r \in DescribeResps("nersc"), job_id \in PathIds, authorization \in AuthHeaders :
       Exchange("GET /job", authorization, Some(job_id),
                nersc_get_job_status(authorization, job_id, r), r)

NerscCancelJob ==
  /\ adapter = "nersc"
  /\ \E r \in CancelResps("nersc"), job_id \in PathIds, authorization \in AuthHeaders :
       Exchange("DELETE /job", authorization, Some(job_id),
                nersc_cancel_job(authorization, job_id, r), r)

NerscListJobs ==
  /\ adapter = "nersc"
  /\ \E r \in ListResps("nersc"), authorization \in AuthHeaders :
       Exchange("GET /jobs", authorization, None, nersc_list_jobs(authorization, r), r)

GatewayInit == Init /\ adapter \in RoutedAdapters

GatewayNext ==
  \/ AppSubmitJob
  \/ AppGetJobStatus
  \/ AppCancelJob
  \/ AppListJobs
  \/ NerscSubmitJob
  \/ NerscGetJobStatus
  \/ NerscCancelJob
  \/ NerscListJobs

GatewaySpec == GatewayInit /\ [][GatewayNext]_vars

(* ------------------- calls with the RPC in flight --------------------- *)

Ops == {"submit", "cancel", "list", "poll", "attach"}

\* the answers the backend of adapter a can give to the RPC of op
OpResps(a, op) ==
  CASE op = "submit" -> SubmitResps(a)
    [] op = "cancel" -> CancelResps(a)
    [] op = "list" -> ListResps(a)
    [] op \in {"poll", "attach"} -> DescribeResps(a)

\* the effect of op of adapter a, called with the arguments it declares, on job j
\* when the backend answers r; attach has bound its native_id before the RPC
OpEff(a, op, j, r) ==
  CASE op = "submit" /\ a = "slurm" -> SlurmSubmitEff(j, r)
    [] op = "submit" /\ a = "nersc" -> NerscSubmitEff(j, TRUE, r)
    [] op = "submit" /\ a = "sfapi" -> SfapiSubmitEff(j, r)
    [] op = "cancel" /\ a = "slurm" -> SlurmCancelEff(j, r)
    [] op = "cancel" /\ a = "nersc" -> NerscCancelEff(j, TRUE, r)
    [] op = "cancel" /\ a = "sfapi" -> SfapiCancelEff(j, r)
    [] op = "list" /\ a = "slurm" -> SlurmListEff(j, r)
    [] op = "list" /\ a = "nersc" -> NerscListEff(j, TRUE, r)
    [] op = "list" /\ a = "sfapi" -> SfapiListEff(j, r)
    [] op \in {"poll", "attach"} -> PollEff(a, j, r)

\* whether op on job j gets as far as its RPC
SendsRpc(a, op, j) == \A r \in OpResps(a, op) : OpEff(a, op, j, r).rpcs = 1

\* the call record while the RPC of op is in flight ("waiting") and once the
\* backend has answered it and the call has not yet gone on ("answered")
InFlight(op, phase, r, pre, arg) ==
  [op |-> op, outcome |-> phase, exc |-> "", rpcs |-> 1, resp |-> r,
   preStatus |-> pre.status, arg |-> arg, mapIn |-> None, mapOut |-> "", ret |-> None]

Idle == last.outcome \in {"ok", "raise"}

\* the job as the RPC of op is sent
Bound(op, j, arg) == IF op = "attach" THEN [j EXCEPT !.native_id = arg] ELSE j

\* an adapter operation is called: it ends at once when it issues no RPC;
\* otherwise it sends the RPC and blocks in the client call, which is given no
\* timeout (requests.post/get/delete and the SlurmApi calls)
Invoke ==
  /\ Idle
  /\ \E op \in Ops, arg \in {None} \cup {Some(i) : i \in AttachIds} :
       /\ (op = "attach") = (arg # None)
       /\ LET j == Bound(op, job, arg)
          IN  IF SendsRpc(adapter, op, j)
              THEN /\ job' = j
                   /\ last' = InFlight(op, "waiting", NoResp, job, arg)
              ELSE /\ job' = OpEff(adapter, op, j, NoResp).job
                   /\ last' = Call(op, OpEff(adapter, op, j, NoResp), NoResp, job, arg)
  /\ UNCHANGED <<adapter, submitCalls, submitRpcs, nativeJobs, factory, request, gatewayVars,
                 conversion>>

\* the backend answers the RPC in flight, or the transport reports its failure
BackendAnswers ==
  /\ last.outcome = "waiting"
  /\ \E r \in OpResps(adapter, last.op) : last' = [last EXCEPT !.outcome = "answered", !.resp = r]
  /\ UNCHANGED <<adapter, job, submitCalls, submitRpcs, nativeJobs, factory, request,
                 gatewayVars, conversion>>

\* the client call returns or raises, and the operation runs to its end
Finish ==
  /\ last.outcome = "answered"
  /\ LET e == OpEff(adapter, last.op, job, last.resp)
     IN  /\ job' = e.job
         /\ last' = [Call(last.op, e, last.resp, job, last.arg)
                       EXCEPT !.preStatus = last.preStatus]
  /\ UNCHANGED <<adapter, submitCalls, submitRpcs, nativeJobs, factory, request, gatewayVars,
                 conversion>>

WaitInit == Init

WaitNext ==
  \/ Invoke
  \/ BackendAnswers
  \/ Finish

\* the adapter's own steps are taken when they can be; nothing makes the
\* backend answer
WaitSpec == WaitInit /\ [][WaitNext]_vars /\ WF_vars(Finish)

(* -------------------------- a mapper on its own ----------------------- *)

\* the record of one call of the adapter's state mapper on native state s
Mapped(a, s) ==
  [NoCall EXCEPT !.op = "map", !.mapIn = Some(s), !.mapOut = Mapper(a, s),
                 !.outcome = IF Mapper(a, s) = RAISE THEN "raise" ELSE "ok",
                 !.exc = IF Mapper(a, s) = RAISE THEN "Exception: Invalid job status code"
                         ELSE ""]

\* the adapter's state mapper is applied to a native state string
MapState ==
  /\ \E s \in NativeStrs \ {EmptyStr} : last' = Mapped(adapter, s)
  /\ UNCHANGED <<adapter, job, submitCalls, submitRpcs, nativeJobs, factory, request,
                 gatewayVars, conversion>>

MapperInit == Init

MapperNext == MapState

MapperSpec == MapperInit /\ [][MapperNext]_vars

(* ------------------------- the conversions ---------------------------- *)

\* a JobEx is converted to a psij Job and the Job back to a JobEx
RoundTrip ==
  /\ \E job_ex \in JobExValues :
       conversion' = [op |-> "roundtrip", job_ex |-> job_ex,
                      psij |-> convert_to_psij_job(job_ex),
                      back |-> convert_from_psij_job(convert_to_psij_job(job_ex))]
  /\ UNCHANGED <<adapter, job, last, submitCalls, submitRpcs, nativeJobs, factory, request,
                 gatewayVars>>

\* a psij Job is converted to a JobEx
FromPsij ==
  /\ \E psij_job \in PsijJobs :
       conversion' = [op |-> "from", job_ex |-> convert_from_psij_job(psij_job),
                      psij |-> psij_job, back |-> convert_from_psij_job(psij_job)]
  /\ UNCHANGED <<adapter, job, last, submitCalls, submitRpcs, nativeJobs, factory, request,
                 gatewayVars>>

ConvertInit == Init /\ adapter = "nersc"

ConvertNext == RoundTrip \/ FromPsij

ConvertSpec == ConvertInit /\ [][ConvertNext]_vars

(* --------------------- adapter calls on any job ----------------------- *)

\* the jobs a caller hands to an adapter: without a spec (Job()), with the empty
\* JobSpec, or with a filled one and another id
HandedJobs ==
  {Job("uid-a", None), Job("uid-a", Some(DefaultJobSpec)), Job("uid-b", Some(WorkJobSpec))}

\* the caller constructs a Job
ConstructJob ==
  /\ \E j \in HandedJobs : job' = j
  /\ last' = NoCall
  /\ UNCHANGED <<adapter, submitCalls, submitRpcs, nativeJobs, factory, request, gatewayVars,
                 conversion>>

FrameInit == Init

FrameNext ==
  \/ ConstructJob
  \/ SlurmSubmit
  \/ NerscSubmit
  \/ SfapiSubmit
  \/ SlurmCancel
  \/ NerscCancel
  \/ SfapiCancel
  \/ Poll
  \/ Attach
  \/ SlurmList
  \/ NerscList
  \/ SfapiList

FrameSpec == FrameInit /\ [][FrameNext]_vars

(* ------------------------------- claims ------------------------------- *)

\* the latest call was a status poll (direct or through attach) whose describe
\* RPC answered
Described == last.op \in {"poll", "attach"} /\ last.rpcs = 1 /\ last.resp.rpc = "ok"

\* ... and the first job record of the answer carries a non-empty native state
DescribedState == Described /\ Len(last.resp.jobs) > 0 /\ StateTruthy(last.resp.jobs[1])

\* that native state (the first element of a list-valued one)
AnsweredState == PrimaryState(last.resp.jobs[1])

\* the keys of adapter a's table, as the adapter looks them up
InTable(a, s) ==
  CASE a = "slurm" -> \E p \in SlurmTable : p[1] = Upper(s)
    [] a = "nersc" -> \E p \in NerscTable : p[1] = Upper(s)
    [] a = "sfapi" -> \E p \in SfapiTable : p[1] = s

\* C1: for each adapter, a poll whose describe RPC answers a code of the generic
\* vocabulary returns, and leaves the job with the one abstract state the
\* adapter's mapper gives that code: no code of the vocabulary is left unmapped.
C1_MapperTotal ==
  /\ \A a \in Adapters, w \in Vocabulary : Mapper(a, U(w)) \in AbstractStates
  /\ (DescribedState /\ AnsweredState \in {U(w) : w \in Vocabulary})
       => /\ last.outcome = "ok"
          /\ last.mapOut \in AbstractStates
          /\ job.status = last.mapOut

\* the NERSC adapter answers CONFIGURING, which its table does not list
C1_Witness ==
  /\ adapter = "nersc" /\ DescribedState
  /\ AnsweredState = U("CONFIGURING") /\ job.status = "NEW"

\* C2: a non-empty native state that the adapter's table does not list never
\* makes the mapper raise: the poll or attach returns with the adapter's default
\* state, UNKNOWN or NEW.
C2_UnknownDegrades ==
  (DescribedState /\ ~InTable(adapter, AnsweredState))
    => last.outcome = "ok" /\ job.status \in {"UNKNOWN", "NEW"}

\* C3: whenever submit returns without error, native_id is the identifier the
\* submit RPC returned and the status is QUEUED.
C3_SubmitQueued ==
  (last.op = "submit" /\ last.outcome = "ok" /\ last.resp.job_id # None)
    => job.native_id = Some(Str(last.resp.job_id[1])) /\ job.status = "QUEUED"

C5_CancelNeedsId ==
  (last.op = "cancel" /\ job.native_id = None)
    => last.outcome = "raise" /\ last.rpcs = 0

\* C6: when cancel is called on a job with a native_id and the cancel RPC
\* succeeds, the status is CANCELED when cancel returns.
C6_CancelSetsCanceled ==
  (last.op = "cancel" /\ last.rpcs = 1 /\ last.resp.rpc = "ok")
    => last.outcome = "ok" /\ job.status = "CANCELED"

\* the describe RPC of the latest poll reported native state COMPLETED
AnsweredCompleted == DescribedState /\ AnsweredState = U("COMPLETED")

\* C7: a poll on a job whose status is the optimistic CANCELED, answered with
\* native state COMPLETED, returns without error and leaves the status COMPLETED.
C7_CancelRace ==
  (last.op = "poll" /\ last.preStatus = "CANCELED" /\ AnsweredCompleted)
    => last.outcome = "ok" /\ job.status = "COMPLETED"

\* a submitted Slurm job, cancelled, then polled as COMPLETED
C7_Witness ==
  /\ adapter = "slurm" /\ nativeJobs >= 1 /\ job.native_id = Some(Str(1))
  /\ last.op = "poll" /\ last.preStatus = "CANCELED" /\ AnsweredCompleted
  /\ job.status = "COMPLETED"

\* C8: attach binds the given native id and polls once; after an attach or a
\* poll that returned with a native state from the describe RPC, the status is
\* the adapter's mapper applied to that state; job "42" answered RUNNING is ACTIVE.
C8_AttachPolls ==
  /\ last.op = "attach"
       => /\ job.native_id = last.arg
          /\ last.rpcs = IF Truthy(last.arg) THEN 1 ELSE 0
  /\ (DescribedState /\ last.outcome = "ok")
       => job.status = Mapper(adapter, AnsweredState)
  /\ (DescribedState /\ AnsweredState = U("RUNNING") /\ job.native_id = Some(<<"4", "2">>))
       => last.outcome = "ok" /\ job.status = "ACTIVE"

\* a fresh job attached to native id "42", answered RUNNING
C8_Witness ==
  /\ last.op = "attach" /\ last.arg = Some(<<"4", "2">>) /\ last.preStatus = "NEW"
  /\ DescribedState /\ AnsweredState = U("RUNNING") /\ job.status = "ACTIVE"

\* C9: a poll on a job without native_id, or whose describe RPC fails, raises.
C9_PollRaises ==
  (last.op = "poll" /\ (job.native_id = None \/ (last.rpcs = 1 /\ last.resp.rpc # "ok")))
    => last.outcome = "raise"

\* C10: get_executor raises "Unknown backend" for a backend that is not
\* registered and "Unknown version" for a registered backend with another
\* version, and then nothing is imported, no config and no executor is built.
C10_UnknownRejected ==
  LET res == factory.result
      nothingBuilt == res.imported = {} /\ res.config = None /\ res.executor = None
  IN  /\ (res.outcome # "none" /\ factory.backend \notin {"slac", "nersc"})
           => /\ res.outcome = "raise" /\ res.exc = "ValueError: Unknown backend"
              /\ nothingBuilt
      /\ (res.outcome # "none" /\ factory.backend \in {"slac", "nersc"}
            /\ factory.version # "v0.1.0")
           => /\ res.outcome = "raise" /\ res.exc = "ValueError: Unknown version"
              /\ nothingBuilt

\* backend "unknown" is refused after an earlier resolution had built an executor
C10_Witness ==
  /\ factory.backend = "unknown" /\ factory.result.exc = "ValueError: Unknown backend"
  /\ factory.earlier # None

\* a registered backend asked for with an unregistered version
C10_WitnessVersion ==
  /\ factory.backend = "nersc" /\ factory.version = "v9.9.9"
  /\ factory.result.exc = "ValueError: Unknown version"

\* the token the registry's static config gives a backend's executor: its
\* "token" parameter, or the config constructor's default
StaticToken(backend, version) == Param(BACKEND_CONFIGS[backend][version].config, "token", "")

\* C11: an executor that get_executor returns carries the caller's credential as
\* its token when one was given, whatever the registry's static config says, and
\* the static default when none was given.
C11_TokenInjected ==
  factory.result.outcome = "ok"
    => LET token == factory.result.executor[1].config.token
       IN  /\ factory.access_token # None => token = factory.access_token[1]
           /\ factory.access_token = None
                => token = StaticToken(factory.backend, factory.version)

\* the NERSC executor resolved with credential tokB after an earlier resolution
\* had returned an executor carrying another token
C11_Witness ==
  /\ factory.backend = "nersc" /\ factory.access_token = Some("tokB")
  /\ factory.result.outcome = "ok"
  /\ factory.result.executor[1].config.token = "tokB"
  /\ factory.earlier # None /\ factory.earlier[1].config.token # "tokB"

\* the job spec of the latest request carries a ResourceSpec asking for n nodes
AsksNodes(n) ==
  /\ request.built /\ request.spec # None
  /\ request.spec[1].resources # None
  /\ request.spec[1].resources[1] = [cls |-> "ResourceSpecV1", node_count |-> Some(n)]

\* C12: the Slurm submit request of a job whose ResourceSpec has node_count n
\* carries the decimal string of n as "nodes" (3 gives "3", 12 gives "12"), and
\* "1" when the job has no spec or its spec has no ResourceSpec.
C12_NodesField ==
  /\ \A n \in NodeCounts : AsksNodes(n) => request.job.nodes = Str(n)
  /\ AsksNodes(3) => request.job.nodes = <<"3">>
  /\ AsksNodes(12) => request.job.nodes = <<"1", "2">>
  /\ (request.built /\ (request.spec = None \/ request.spec[1].resources = None))
       => request.job.nodes = <<"1">>

\* a job asking for 3 nodes for 59 seconds
C12_Witness ==
  /\ AsksNodes(3) /\ request.spec[1].duration = 59
  /\ request.job.nodes = <<"3">> /\ request.job.time_limit.number = 0

\* the latest exchange passed the route's authentication
Authorised == http.route # "none" /\ http.reply.status # 401

\* the backend's answer to the latest exchange lists the job number behind id
AnswerLists(id) ==
  \E i \in 1..Len(http.answer.jobs) :
    http.answer.jobs[i] # None /\ Str(http.answer.jobs[i][1]) = id

\* C13: for both routed backends, GET /jobs after a job was submitted with 201
\* and not cancelled since, the backend's list RPC succeeding and listing that
\* job, answers 200 with a list that contains the job's id; and a list call that
\* returns gives the native ids of the list RPC's answer (every record of which
\* carries one) in order.
C13_ListContainsSubmitted ==
  /\ (http.route = "GET /jobs" /\ Authorised /\ submitted # None /\ ~cancelled
        /\ http.answer.rpc = "ok" /\ AnswerLists(submitted[1]))
       => /\ http.reply.status = 200
          /\ \E i \in 1..Len(http.reply.jobs[1]) : http.reply.jobs[1][i] = submitted[1]
  /\ (last.op = "list" /\ last.outcome = "ok"
        /\ \A i \in 1..Len(http.answer.jobs) : http.answer.jobs[i] # None)
       => /\ last.ret # None
          /\ Len(last.ret[1]) = Len(http.answer.jobs)
          /\ \A i \in 1..Len(last.ret[1]) : last.ret[1][i] = Str(http.answer.jobs[i][1])

\* C14: for both routed backends, DELETE /job/{job_id} of the job submitted with
\* 201, the backend answering the cancel RPC with success, is answered 204.
C14_CancelReturns204 ==
  (http.route = "DELETE /job" /\ Authorised /\ submitted # None
     /\ http.job_id = submitted /\ http.answer.rpc = "ok")
    => http.reply.status = 204

\* job_id is a string of decimal digits denoting an integer greater than 0
PositiveDecimal(job_id) ==
  /\ job_id # <<>>
  /\ \A i \in 1..Len(job_id) : job_id[i] \in DecimalChars
  /\ int(job_id) > 0

\* C15: GET /job/{job_id} for a well-formed id whose describe RPC fails or
\* answers without a job record is answered 404, and a 200 answer carries the
\* state mapped from the native state the describe RPC reported.
C15_UnknownJob404 ==
  (http.route = "GET /job" /\ Authorised /\ PositiveDecimal(http.job_id[1]))
    => /\ (http.answer.rpc # "ok" \/ http.answer.jobs = <<>>) => http.reply.status = 404
       /\ http.reply.status = 200
            => DescribedState /\ http.reply.state = Mapper(adapter, AnsweredState)

\* C16: GET /job/{job_id} with a job_id that is not a string of decimal digits
\* denoting an integer greater than 0 is answered 400 with the detail
\* "Invalid job_id...", and no executor call and no RPC is made for it.
C16_InvalidId400 ==
  (http.route = "GET /job" /\ Authorised /\ ~PositiveDecimal(http.job_id[1]))
    => /\ http.reply.status = 400
       /\ http.reply.detail = "Invalid job_id. It must be an integer greater than 0."
       /\ last.op = "none" /\ last.rpcs = 0

\* a step that is a submit invocation whose RPC failed: a transport error, an
\* error response, or an answer without a job id
FailedSubmitStep ==
  /\ submitCalls' = submitCalls + 1
  /\ last'.rpcs = 1
  /\ (last'.resp.rpc # "ok" \/ last'.resp.job_id = None)

\* C17: a submit whose RPC failed raises and leaves the job as it was, and
\* native_id is only ever set by a submit whose RPC returned a job id or by attach.
C17_FailedSubmitLeavesJob ==
  [][/\ FailedSubmitStep => (last'.outcome = "raise" /\ job' = job)
     /\ (job'.native_id # job.native_id /\ job'.native_id # None)
          => \/ last'.op = "attach"
             \/ (last'.op = "submit" /\ last'.outcome = "ok" /\ last'.resp.job_id # None)]_vars

C19_Terminates == (last.outcome = "waiting") ~> Idle

\* an error response of the backend to an RPC, as opposed to a transport failure
Refusals == {"ApiException", "HTTPError"}

TerminalStates == {"COMPLETED", "FAILED", "CANCELED"}

\* C20: a cancel of a job whose status is already terminal (a second cancel, or
\* a job that has finished), which the backend answers with an error response
\* because it cannot cancel the job, returns without error.
C20_CancelIdempotent ==
  (last.op = "cancel" /\ last.preStatus \in TerminalStates
     /\ last.rpcs = 1 /\ last.resp.rpc \in Refusals)
    => last.outcome = "ok"

\* the generic table of native codes and abstract states
GenericTable ==
  { <<"PENDING", "QUEUED">>, <<"CONFIGURING", "QUEUED">>, <<"SUSPENDED", "QUEUED">>,
    <<"RUNNING", "ACTIVE">>, <<"COMPLETED", "COMPLETED">>, <<"FAILED", "FAILED">>,
    <<"TIMEOUT", "FAILED">>, <<"PREEMPTED", "FAILED">>, <<"NODE_FAIL", "FAILED">>,
    <<"CANCELLED", "CANCELED">> }

\* C21: every adapter's mapper gives each code of the generic table, spelled in
\* upper case, the abstract state of its row.
C21_GenericTable ==
  \A row \in GenericTable :
    (last.op = "map" /\ last.mapIn = Some(U(row[1]))) => last.mapOut = row[2]

\* C22: every adapter's mapper gives a lower-case or mixed-case spelling of a
\* code of its table the abstract state it gives the upper-case spelling.
C22_CaseInsensitive ==
  (last.op = "map" /\ InTable(adapter, Upper(last.mapIn[1])))
    => last.mapOut = Mapper(adapter, Upper(last.mapIn[1]))

\* C23: a Slurm poll or attach whose describe RPC answered with job records, the
\* first carrying a non-empty state, hands the mapper the first element of a
\* list-valued state or the scalar string itself, taken from the first record,
\* and when the mapper returns the status is the mapper's result for it; the
\* list <<PENDING, COMPLETING>> gives the status of PENDING.
C23_FirstOfList ==
  (adapter = "slurm" /\ DescribedState)
    => LET v == last.resp.jobs[1]
       IN  /\ last.mapIn = Some(v.items[1])
           /\ last.outcome = "ok" => job.status = _map_slurm_state_to_psij(v.items[1])
           /\ v = ListVal(<<U("PENDING"), U("COMPLETING")>>)
                => last.outcome = "ok" /\ job.status = "QUEUED"

\* a Slurm job polled with the state list <<PENDING, COMPLETING>>
C23_Witness ==
  /\ adapter = "slurm" /\ last.op = "poll" /\ DescribedState
  /\ last.resp.jobs[1] = ListVal(<<U("PENDING"), U("COMPLETING")>>)
  /\ job.status = "QUEUED"

\* C24: a poll or attach whose describe RPC answered with a job record whose
\* native state is empty or missing (the empty string, the empty list, None, or
\* no such field) raises.
C24_EmptyStateRaises ==
  (Described /\ Len(last.resp.jobs) > 0 /\ ~StateTruthy(last.resp.jobs[1]))
    => last.outcome = "raise"

\* C25: a call on a job whose status is terminal changes the status only when it
\* is a poll or attach whose describe RPC answered, and then to the state mapped
\* from that answer; cancel and submit leave a terminal status as it is.
C25_TerminalSticky ==
  [][(last'.op # "none" /\ job.status \in TerminalStates /\ job'.status # job.status)
       => /\ last'.op \in {"poll", "attach"}
          /\ last'.rpcs = 1 /\ last'.resp.rpc = "ok"
          /\ job'.status = last'.mapOut]_vars

\* the duration, in seconds, of the job whose submit request was built
RequestDuration ==
  IF request.spec # None THEN request.spec[1].duration ELSE DefaultJobSpec.duration

C27_FrameOfJob ==
  [][last'.op # "none" =>
       /\ job'.spec = job.spec
       /\ job'.id = job.id
       /\ DOMAIN job' = DOMAIN job
       /\ last'.op \in {"cancel", "poll", "list"} => job'.native_id = job.native_id
       /\ last'.op = "list" => job'.status = job.status]_vars

\* a cancel that wrote CANCELED on a job with a filled spec and the second id,
\* both still in place next to the native id that submit or attach wrote
C27_Witness ==
  /\ last.op = "cancel" /\ last.outcome = "ok" /\ last.rpcs = 1
  /\ last.preStatus # "CANCELED" /\ job.status = "CANCELED"
  /\ job.native_id # None
  /\ job.spec = Some(WorkJobSpec) /\ job.id = "uid-b"

\* the token of the executor that the resolution before the latest one returned
EarlierToken == factory.earlier[1].config.token

BearerWords == {"Bearer", "bearer", "BEARER"}

\* the Authorization header of the latest exchange is present and consists of a
\* spelling of bearer and one more word `token`, with whitespace around them only
BearerWith(token) ==
  /\ http.authorization # None
  /\ LET h == http.authorization[1]
     IN  \E i, j \in 1..Len(h) :
           /\ i < j /\ h[i] \in BearerWords /\ h[j] = token /\ token # " "
           /\ \A k \in (1..Len(h)) \ {i, j} : h[k] = " "

\* C29: a request to a NERSC route whose Authorization header is a spelling of
\* bearer followed by one token is served by an executor carrying that token;
\* with a missing or empty header or a header of any other shape the request is
\* answered 401, no executor is resolved and no backend RPC is sent
C29_BearerOnly ==
  (adapter = "nersc" /\ http.route # "none")
    => /\ \A t \in Tokens :
            BearerWith(t) => http.reply.status # 401 /\ http.token = Some(t)
       /\ (~ \E t \in Tokens : BearerWith(t))
            => /\ http.reply.status = 401
               /\ http.token = None
               /\ last.op = "none" /\ last.rpcs = 0

\* a submit whose header is "bearer  tokA", in lower case and with two blanks,
\* was accepted and sent its RPC with an executor carrying tokA
C29_Witness ==
  /\ adapter = "nersc" /\ http.route = "POST /job"
  /\ http.authorization = Some(<<"bearer", " ", " ", "tokA">>)
  /\ http.token = Some("tokA") /\ http.reply.status = 201
  /\ last.op = "submit" /\ last.rpcs = 1

\* a status request whose header carries a third word was answered 401 with no
\* executor call
C29_WitnessRefused ==
  /\ adapter = "nersc" /\ http.route = "GET /job"
  /\ http.authorization = Some(<<"Bearer", " ", "tokA", " ", "x">>)
  /\ http.reply.status = 401 /\ http.token = None /\ last.op = "none"

\* C30: a JobEx converted to a psij Job and back has the id, the native_id and,
\* for each of the six states, the state it had; a state outside the six becomes
\* NEW in the psij Job, and a psij state outside the six becomes NEW in the JobEx
C30_RoundTrip ==
  /\ conversion.op = "roundtrip"
       => /\ conversion.back.id = conversion.job_ex.id
          /\ conversion.back.native_id = conversion.job_ex.native_id
          /\ conversion.job_ex.state \in JobStateExValues
               => conversion.back.state = conversion.job_ex.state
          /\ conversion.job_ex.state \notin JobStateExValues
               => conversion.psij.status = "NEW" /\ conversion.back.state = "NEW"
  /\ (conversion.op = "from" /\ conversion.psij.status \notin JobStateExValues)
       => conversion.back.state = "NEW"

============================================================================
